---- MODULE Spec2Model ----
(***************************************************************************)
(* The todo page of the task manager (TodoPage): the in-memory task list,  *)
(* its persistence to localStorage, the view projection, the selection     *)
(* set and the bulk operations.                                            *)
(*                                                                         *)
(* Strings are sequences of one-character strings, so that trim,           *)
(* toLowerCase, includes and replace are computed character by character.  *)
(* An optional field (description?, dueDate?, category?, completedAt?) is  *)
(* a sequence of length at most one: <<>> is undefined, <<v>> is v.        *)
(***************************************************************************)
EXTENDS Integers, Sequences, FiniteSets, TLC

VARIABLES
    phase,            \* "mount" | "loaded" | "flushed" | "ready" | "crashed"
    tasks,            \* useState<Task[]>
    queued,           \* the state update queued by the mount-time load effect
    storage,          \* localStorage[STORAGE_KEY]
    selectedTasks,    \* useState<Set<number>>
    deleteConfirmId,  \* useState<number | null>, 0 is null
    editingId,        \* useState<number | null>, 0 is null: the task whose title is an input
    showTemplates,    \* the templates dialog is open
    templateStorage,  \* localStorage["todo-templates"]
    relay,            \* the chat relay (POST /api/chat) at work on one request
    chat,             \* a chat component (Chatbot, ChatPage): its state, the item
                      \* localStorage["chatbot-history"] and its requests in flight
    form,             \* the new-task form: newTaskTitle, newTaskDescription, newTaskPriority,
                      \* newTaskDueDate, newTaskCategory
    timers,           \* the pending 3-second timeouts of the delete buttons, oldest
                      \* first, each with the id whose click started it
    filter,           \* useState<FilterType>
    searchQuery,      \* useState("")
    sortBy,           \* useState<SortType>
    now,              \* the reading of Date.now()
    alertMsg,         \* the text of the last alert() shown, "" when none
    ops,              \* history: the number of user operations performed
    lastOp,           \* history: the last operation performed and its arguments (for a
                      \* toggle, arg counts the toggles of the same id in a row)
    prevTasks         \* history: the task list before the last operation

vars == <<phase, tasks, queued, storage, selectedTasks, deleteConfirmId, editingId,
          showTemplates, templateStorage, relay, form, timers,
          filter, searchQuery, sortBy, now, alertMsg, ops, lastOp, prevTasks, chat>>

---------------------------------------------------------------------------
(* Bounds *)

MaxTasks == 3
MaxOps == 3
MaxTicks == 1
MaxViewTasks == 3

---------------------------------------------------------------------------
(* Values *)

None == <<>>
Some(v) == <<v>>

NoId == 0

\* The first reading of Date.now(); any reading is larger than the seed ids.
Epoch == 3

FilterTypes == {"All", "Pending", "Completed"}

WhiteSpace == {" ", "\t", "\n"}

Uppers == <<"A", "B", "C", "D", "E", "F", "G", "H", "I", "J", "K", "L", "M",
           "N", "O", "P", "Q", "R", "S", "T", "U", "V", "W", "X", "Y", "Z">>
Lowers == <<"a", "b", "c", "d", "e", "f", "g", "h", "i", "j", "k", "l", "m",
           "n", "o", "p", "q", "r", "s", "t", "u", "v", "w", "x", "y", "z">>

LowerChar(c) ==
    IF \E i \in DOMAIN Uppers : Uppers[i] = c
    THEN Lowers[CHOOSE i \in DOMAIN Uppers : Uppers[i] = c]
    ELSE c

\* String.prototype.toLowerCase
ToLowerCase(s) == [i \in 1 .. Len(s) |-> LowerChar(s[i])]

\* String.prototype.includes
Includes(s, q) ==
    \E i \in 1 .. (Len(s) - Len(q) + 1) : SubSeq(s, i, i + Len(q) - 1) = q

RECURSIVE TrimStart(_)
TrimStart(s) ==
    IF s = <<>> THEN s
    ELSE IF Head(s) \in WhiteSpace THEN TrimStart(Tail(s)) ELSE s

RECURSIVE TrimEnd(_)
TrimEnd(s) ==
    IF s = <<>> THEN s
    ELSE IF s[Len(s)] \in WhiteSpace THEN TrimEnd(SubSeq(s, 1, Len(s) - 1)) ELSE s

\* Trim that takes the white space off the front only
TrimStartOnly(s) == TrimStart(s)

\* String.prototype.trim
Trim(s) == TrimEnd(TrimStart(s))

\* `x || undefined` on a string: the empty string is falsy
OrUndefined(s) == IF s = <<>> THEN None ELSE Some(s)

---------------------------------------------------------------------------
(* Tasks *)

RequiredKeys == {"id", "title", "status", "priority", "subtasks", "createdAt"}
OptionalKeys == {"description", "dueDate", "category", "completedAt"}

\* An element of the list that the page can render: a Task (the render reads
\* task.subtasks.filter, task.title.toLowerCase, ...).
IsTask(o) == DOMAIN o = RequiredKeys \cup OptionalKeys

RenderOk(ts) == \A i \in DOMAIN ts : IsTask(ts[i])

SeedTitle1 == <<"S", "t", "u", "d", "y", " ", "D", "S", "A">>
SeedTitle2 == <<"B", "u", "i", "l", "d", " ", "T", "o", "-", "D", "o", " ", "A", "p", "p">>

NewTask(id, title, description, priority, dueDate, category, createdAt) ==
    [id |-> id, title |-> title, description |-> description, status |-> "Pending",
     priority |-> priority, dueDate |-> dueDate, category |-> category,
     subtasks |-> <<>>, createdAt |-> createdAt, completedAt |-> None]

SeedTasks(t) ==
    << NewTask(1, SeedTitle1, None, "Medium", None, None, t),
       [NewTask(2, SeedTitle2, None, "High", None, None, t) EXCEPT !.status = "Completed"] >>

---------------------------------------------------------------------------
(* JSON documents and localStorage *)

\* localStorage.getItem(key) === null
NoItem == [kind |-> "null"]
\* a text that JSON.parse rejects
InvalidDoc == [kind |-> "invalid"]
\* the text {"not":"an array"}
ObjectDoc == [kind |-> "object"]
ArrayDoc(items) == [kind |-> "array", items |-> items]

\* JSON.stringify of one task: a key whose value is undefined is left out
StringifyTask(t) ==
    [k \in RequiredKeys \cup {k \in OptionalKeys : t[k] # None} |->
        IF k \in OptionalKeys THEN t[k][1] ELSE t[k]]

\* JSON.stringify(tasks)
Stringify(ts) == ArrayDoc([i \in DOMAIN ts |-> StringifyTask(ts[i])])

\* Reading the properties of a parsed object: an absent key reads undefined
Revive(o) ==
    IF RequiredKeys \subseteq DOMAIN o
    THEN [k \in RequiredKeys \cup OptionalKeys |->
            IF k \in OptionalKeys
            THEN (IF k \in DOMAIN o THEN Some(o[k]) ELSE None)
            ELSE o[k]]
    ELSE o

\* JSON.parse of an array document, as the page reads it
ParseItems(doc) == [i \in DOMAIN doc.items |-> Revive(doc.items[i])]

\* { ...task, createdAt: task.createdAt || Date.now() }
WithCreatedAt(o, t) ==
    [k \in DOMAIN o \cup {"createdAt"} |->
        IF k = "createdAt"
        THEN (IF "createdAt" \in DOMAIN o /\ o.createdAt # 0 THEN o.createdAt ELSE t)
        ELSE o[k]]

LoadTasks(stored, t) ==
    IF stored.kind = "array"
    THEN [i \in DOMAIN stored.items |-> Revive(WithCreatedAt(stored.items[i], t))]
    ELSE SeedTasks(t)

SaveTasks(ts) == Stringify(ts)

\* a save effect that never writes an empty list
SaveEffectSkipsEmpty(ts, stored) ==
    IF Len(ts) > 0 THEN SaveTasks(ts) ELSE stored

\* useEffect(() => { if (tasks.length > 0 || getItem(KEY)) saveTasks(tasks) }, [tasks])
SaveEffect(ts, stored) ==
    IF Len(ts) > 0 \/ stored # NoItem THEN SaveTasks(ts) ELSE stored

---------------------------------------------------------------------------
(* View projection *)

\* a filter callback whose search branch is taken before the status checks
MatchesFilterSearchFirst(task, f, q) ==
    IF q # <<>>
    THEN LET query == ToLowerCase(q) IN
            \/ Includes(ToLowerCase(task.title), query)
            \/ task.description # None /\ Includes(ToLowerCase(task.description[1]), query)
            \/ task.category # None /\ Includes(ToLowerCase(task.category[1]), query)
    ELSE IF f = "Pending" /\ task.status # "Pending" THEN FALSE
    ELSE IF f = "Completed" /\ task.status # "Completed" THEN FALSE
    ELSE TRUE

\* a filter callback that forgets to lower-case the query
MatchesFilterCaseSensitive(task, f, q) ==
    IF f = "Pending" /\ task.status # "Pending" THEN FALSE
    ELSE IF f = "Completed" /\ task.status # "Completed" THEN FALSE
    ELSE IF q # <<>>
    THEN \/ Includes(ToLowerCase(task.title), q)
         \/ task.description # None /\ Includes(ToLowerCase(task.description[1]), q)
         \/ task.category # None /\ Includes(ToLowerCase(task.category[1]), q)
    ELSE TRUE

\* the callback of tasks.filter(...) in filteredAndSortedTasks
MatchesFilter(task, f, q) ==
    IF f = "Pending" /\ task.status # "Pending" THEN FALSE
    ELSE IF f = "Completed" /\ task.status # "Completed" THEN FALSE
    ELSE IF q # <<>>
    THEN LET query == ToLowerCase(q) IN
            \/ Includes(ToLowerCase(task.title), query)
            \/ task.description # None /\ Includes(ToLowerCase(task.description[1]), query)
            \/ task.category # None /\ Includes(ToLowerCase(task.category[1]), query)
    ELSE TRUE

FilterTasks(ts, f, q) == SelectSeq(ts, LAMBDA task : MatchesFilter(task, f, q))

PriorityOrder(p) ==
    CASE p = "Urgent" -> 4 [] p = "High" -> 3 [] p = "Medium" -> 2 [] p = "Low" -> 1

\* the characters of a date string "yyyy-mm-dd", the value of an <input type="date">
Digits == <<"0", "1", "2", "3", "4", "5", "6", "7", "8", "9">>

DigitValue(c) == (CHOOSE i \in DOMAIN Digits : Digits[i] = c) - 1

\* the number a run of digits spells
RECURSIVE ParseInt(_)
ParseInt(s) ==
    IF s = <<>> THEN 0 ELSE 10 * ParseInt(SubSeq(s, 1, Len(s) - 1)) + DigitValue(s[Len(s)])

\* new Date(s).getTime() of a date string, counted in days of a calendar of 31-day months
\* (the order of the instants is the order of these numbers)
GetTime(s) ==
    372 * ParseInt(SubSeq(s, 1, 4)) + 31 * ParseInt(SubSeq(s, 6, 7)) + ParseInt(SubSeq(s, 9, 10))

\* the collation order of the characters of a title: space, punctuation, digits, letters
Collation ==
    <<" ", "\t", "\n", "-", "(", ")", "0", "1", "2", "3", "4", "5", "6", "7", "8", "9",
      "a", "b", "c", "d", "e", "f", "g", "h", "i", "j", "k", "l", "m",
      "n", "o", "p", "q", "r", "s", "t", "u", "v", "w", "x", "y", "z">>

CollationKey(c) == CHOOSE i \in DOMAIN Collation : Collation[i] = LowerChar(c)

\* the sign of the first difference of two sequences of numbers, a prefix before its extensions
RECURSIVE CompareKeys(_, _)
CompareKeys(k, l) ==
    IF k = <<>> /\ l = <<>> THEN 0
    ELSE IF k = <<>> THEN -1
    ELSE IF l = <<>> THEN 1
    ELSE IF Head(k) < Head(l) THEN -1
    ELSE IF Head(k) > Head(l) THEN 1
    ELSE CompareKeys(Tail(k), Tail(l))

\* String.prototype.localeCompare: by the characters without their case, and for
\* strings that differ in case only, lower case before upper case
LocaleCompare(s, t) ==
    LET primary == CompareKeys([i \in DOMAIN s |-> CollationKey(s[i])],
                               [i \in DOMAIN t |-> CollationKey(t[i])])
        case(u) == [i \in DOMAIN u |-> IF LowerChar(u[i]) = u[i] THEN 0 ELSE 1]
    IN IF primary # 0 THEN primary ELSE CompareKeys(case(s), case(t))

\* !v of an optional string: undefined and the empty string are falsy
Not(v) == v = None \/ v = Some(<<>>)

\* Compare with the priority branch subtracting the other way round
CompareLowPriorityFirst(a, b, by) ==
    CASE by = "priority" -> PriorityOrder(a.priority) - PriorityOrder(b.priority)
      [] by = "dueDate" ->
            IF Not(a.dueDate) /\ Not(b.dueDate) THEN 0
            ELSE IF Not(a.dueDate) THEN 1
            ELSE IF Not(b.dueDate) THEN -1
            ELSE GetTime(a.dueDate[1]) - GetTime(b.dueDate[1])
      [] by = "alphabetical" -> LocaleCompare(a.title, b.title)
      [] OTHER -> b.createdAt - a.createdAt

\* Compare with the dueDate branch comparing the dates only
CompareDatesOnly(a, b, by) ==
    CASE by = "priority" -> PriorityOrder(b.priority) - PriorityOrder(a.priority)
      [] by = "dueDate" ->
            IF Not(a.dueDate) \/ Not(b.dueDate) THEN 0
            ELSE GetTime(a.dueDate[1]) - GetTime(b.dueDate[1])
      [] by = "alphabetical" -> LocaleCompare(a.title, b.title)
      [] OTHER -> b.createdAt - a.createdAt

\* the comparator of .sort(...) in filteredAndSortedTasks
Compare(a, b, by) ==
    CASE by = "priority" -> PriorityOrder(b.priority) - PriorityOrder(a.priority)
      [] by = "dueDate" ->
            IF Not(a.dueDate) /\ Not(b.dueDate) THEN 0
            ELSE IF Not(a.dueDate) THEN 1
            ELSE IF Not(b.dueDate) THEN -1
            ELSE GetTime(a.dueDate[1]) - GetTime(b.dueDate[1])
      [] by = "alphabetical" -> LocaleCompare(a.title, b.title)
      [] OTHER -> b.createdAt - a.createdAt

\* x put into the sorted sequence s, after every element that does not sort after it
InsertSorted(s, x, by) ==
    LET later == {i \in DOMAIN s : Compare(s[i], x, by) > 0}
        at == IF later = {} THEN Len(s) + 1
              ELSE CHOOSE i \in later : \A j \in later : i <= j
    IN SubSeq(s, 1, at - 1) \o <<x>> \o SubSeq(s, at, Len(s))

\* Array.prototype.sort: a stable sort
RECURSIVE SortTasks(_, _)
SortTasks(s, by) ==
    IF s = <<>> THEN <<>>
    ELSE InsertSorted(SortTasks(SubSeq(s, 1, Len(s) - 1), by), s[Len(s)], by)

FilteredAndSortedTasks == SortTasks(FilterTasks(tasks, filter, searchQuery), sortBy)

\* the ids of the task cards on the page
VisibleIds == {FilteredAndSortedTasks[i].id : i \in DOMAIN FilteredAndSortedTasks}

---------------------------------------------------------------------------
(* Task operations on the list *)

\* a toggle that stamps completedAt whatever the status
ToggleTaskAlwaysStamps(task, t) ==
    [task EXCEPT !.status = IF task.status = "Pending" THEN "Completed" ELSE "Pending",
                 !.completedAt = Some(t)]

\* the object toggleTaskStatus maps a matching task to
ToggleTask(task, t) ==
    [task EXCEPT !.status = IF task.status = "Pending" THEN "Completed" ELSE "Pending",
                 !.completedAt = IF task.status = "Pending" THEN Some(t) ELSE None]

ToggleStatus(ts, id, t) ==
    [i \in DOMAIN ts |-> IF ts[i].id = id THEN ToggleTask(ts[i], t) ELSE ts[i]]

\* prev.filter((task) => task.id !== id)
DeleteTask(ts, id) == SelectSeq(ts, LAMBDA task : task.id # id)

\* prev.filter((task) => !selectedTasks.has(task.id))
BulkDeleteTasks(ts, sel) == SelectSeq(ts, LAMBDA task : task.id \notin sel)

\* a bulkComplete that does not look at the status of a selected task
BulkCompleteTaskAnyStatus(task, sel, t) ==
    IF task.id \in sel
    THEN [task EXCEPT !.status = "Completed", !.completedAt = Some(t)]
    ELSE task

\* the object bulkComplete maps a task to
BulkCompleteTask(task, sel, t) ==
    IF task.id \in sel /\ task.status = "Pending"
    THEN [task EXCEPT !.status = "Completed", !.completedAt = Some(t)]
    ELSE task

BulkCompleteTasks(ts, sel, t) == [i \in DOMAIN ts |-> BulkCompleteTask(ts[i], sel, t)]

\* BulkPriorityTasks that passes over the Completed tasks
BulkPriorityPendingTasks(ts, sel, p) ==
    [i \in DOMAIN ts |->
        IF ts[i].id \in sel /\ ts[i].status = "Pending"
        THEN [ts[i] EXCEPT !.priority = p] ELSE ts[i]]

BulkPriorityTasks(ts, sel, p) ==
    [i \in DOMAIN ts |-> IF ts[i].id \in sel THEN [ts[i] EXCEPT !.priority = p] ELSE ts[i]]

\* Array.prototype.findIndex on the id: 0-based, -1 when no task has the id
\* { ...task, ...updates }
Merge(task, updates) ==
    [k \in DOMAIN task \cup DOMAIN updates |->
        IF k \in DOMAIN updates THEN updates[k] ELSE task[k]]

\* the list handleUpdateTask(id, updates) sets
UpdateTask(ts, id, updates) ==
    [i \in DOMAIN ts |-> IF ts[i].id = id THEN Merge(ts[i], updates) ELSE ts[i]]

\* the placeholder of the title input's onBlur
UntitledTask == <<"U", "n", "t", "i", "t", "l", "e", "d", " ", "T", "a", "s", "k">>

\* the list after the title input of card k has lost the focus: onBlur
TitleBlur(ts, k) ==
    IF Trim(ts[k].title) = <<>>
    THEN UpdateTask(ts, ts[k].id, [title |-> UntitledTask])
    ELSE ts

\* the list ts after the title input of the task in edit has gone from the page:
\* whether a browser sends a blur to an input that is removed while it has the focus
\* differs between browsers, and the onBlur that runs then is the one of the last
\* render of the input, which sees the titles of before
AfterUnmount(ts, before, editing, blurs) ==
    LET cards == {k \in DOMAIN before : before[k].id = editing /\ Trim(before[k].title) = <<>>}
    IN IF editing # NoId /\ blurs /\ cards # {}
       THEN UpdateTask(ts, editing, [title |-> UntitledTask])
       ELSE ts

\* " (Template)"
TemplateMarker == <<" ", "(", "T", "e", "m", "p", "l", "a", "t", "e", ")">>

\* s.replace(pattern, ""): s without the first occurrence of pattern
RemoveFirst(s, pattern) ==
    LET n == Len(pattern)
        at == {i \in 1 .. (Len(s) - n + 1) : SubSeq(s, i, i + n - 1) = pattern}
    IN IF at = {} THEN s
       ELSE LET i == CHOOSE i \in at : \A j \in at : i <= j
            IN SubSeq(s, 1, i - 1) \o SubSeq(s, i + n, Len(s))

\* JSON.parse(localStorage.getItem(TEMPLATES_KEY) || "[]") of loadTemplates, [] when
\* the parse throws
LoadTemplates(stored) ==
    CASE stored.kind = "array" -> ParseItems(stored)
      [] OTHER -> <<>>

\* the record saveAsTemplate pushes
TemplateOf(task, t) == Merge(task, [id |-> t, title |-> task.title \o TemplateMarker])

\* localStorage[TEMPLATES_KEY] after saveAsTemplate(task): a value that does not parse,
\* or parses to something without push, is left as it is
SaveTemplate(stored, task, t) ==
    CASE stored.kind = "null" -> Stringify(<<TemplateOf(task, t)>>)
      [] stored.kind = "array" ->
            ArrayDoc(Append(stored.items, StringifyTask(TemplateOf(task, t))))
      [] OTHER -> stored

\* the task useTemplate appends
TaskFromTemplate(template, t) ==
    Merge(template, [id |-> t, status |-> "Pending", createdAt |-> t, completedAt |-> None,
                     title |-> RemoveFirst(template.title, TemplateMarker)])

FindIndex(ts, id) ==
    IF \E i \in DOMAIN ts : ts[i].id = id
    THEN (CHOOSE i \in DOMAIN ts : ts[i].id = id /\ \A j \in 1 .. (i - 1) : ts[j].id # id) - 1
    ELSE -1

\* the start index Array.prototype.splice works from: a negative start counts
\* from the end, and the start is clamped to 0 .. length
SpliceStart(n, start) ==
    IF start < 0 THEN (IF n + start < 0 THEN 0 ELSE n + start)
    ELSE (IF start > n THEN n ELSE start)

\* a reorder that looks the target up after it has removed the dragged task,
\* and so always inserts before the target
ReorderBeforeTarget(ts, draggedId, targetId) ==
    LET n == Len(ts)
        from == SpliceStart(n, FindIndex(ts, draggedId))
        dragged == SubSeq(ts, from + 1, from + 1)
        rest == SubSeq(ts, 1, from) \o SubSeq(ts, from + 2, n)
        to == SpliceStart(Len(rest), FindIndex(rest, targetId))
    IN SubSeq(rest, 1, to) \o dragged \o SubSeq(rest, to + 1, Len(rest))

\* the state update of the onDrop handler of the card of task targetId
Reorder(ts, draggedId, targetId) ==
    LET n == Len(ts)
        draggedIndex == FindIndex(ts, draggedId)
        dropIndex == FindIndex(ts, targetId)
        from == SpliceStart(n, draggedIndex)
        dragged == SubSeq(ts, from + 1, from + 1)
        rest == SubSeq(ts, 1, from) \o SubSeq(ts, from + 2, n)
        to == SpliceStart(Len(rest), dropIndex)
    IN SubSeq(rest, 1, to) \o dragged \o SubSeq(rest, to + 1, Len(rest))

---------------------------------------------------------------------------
(* Inputs *)

\* what the user types into the title field of the new-task form
AddTitles == { <<" ">>, <<" ", "a">> }
AddPriorities == {"Medium", "Low"}
\* the other fields of the form: a blank description, no due date, no category
AddDescription == <<" ">>
AddDueDate == <<>>
AddCategory == <<>>
BulkPriorities == {"Urgent"}

ImportedTask == [NewTask(1, <<"b">>, None, "High", None, None, 2)
                    EXCEPT !.status = "Completed", !.completedAt = Some(2)]

\* the files the user imports
ImportDocs ==
    << InvalidDoc,
       ObjectDoc,
       ArrayDoc(<<>>),
       ArrayDoc(<<StringifyTask(ImportedTask)>>),
       ArrayDoc(<<[foo |-> 1]>>) >>

\* what localStorage holds under STORAGE_KEY when the page is opened
\* a list saved by an earlier session: two tasks, the second one completed
StoredTasks ==
    << NewTask(1, <<"a">>, None, "Medium", None, None, 1),
       [NewTask(2, <<"b">>, None, "Low", None, None, 2)
           EXCEPT !.status = "Completed", !.completedAt = Some(2)] >>

\* a list saved by an earlier session in which two tasks were added within
\* the same millisecond
StoredTwins ==
    << NewTask(2, <<"a">>, None, "Medium", None, None, 2),
       NewTask(2, <<"b">>, None, "Medium", None, None, 2) >>

InitialStorage == { NoItem, InvalidDoc, Stringify(StoredTasks), Stringify(StoredTwins) }

---------------------------------------------------------------------------
(* The page *)

\* no request at the relay
RelayIdle == [pc |-> "idle"]
\* no chat component is mounted
ChatUnmounted == [phase |-> "unmounted"]

\* the contents of the new-task form
Form(title, description, priority, dueDate, category) ==
    [title |-> title, description |-> description, priority |-> priority,
     dueDate |-> dueDate, category |-> category]

\* the form as useState initialises it, and as a successful add and Cancel leave it
EmptyForm == Form(<<>>, <<>>, "Medium", <<>>, <<>>)

Op(name, a, b) == [op |-> name, id |-> a, arg |-> b]

Init ==
    /\ phase = "mount"
    /\ tasks = <<>>
    /\ queued = <<>>
    /\ storage \in InitialStorage
    /\ selectedTasks = {}
    /\ deleteConfirmId = NoId
    /\ timers = <<>>
    /\ form = EmptyForm
    /\ editingId = NoId
    /\ showTemplates = FALSE
    /\ templateStorage = NoItem
    /\ relay = RelayIdle
    /\ chat = ChatUnmounted
    /\ filter = "All"
    /\ searchQuery = <<>>
    /\ sortBy = "date"
    /\ now = Epoch
    /\ alertMsg = ""
    /\ ops = 0
    /\ lastOp = Op("none", NoId, 0)
    /\ prevTasks = <<>>

\* the load effect of the first render: setTasks(loadTasks())
MountLoadEffect ==
    /\ phase = "mount"
    /\ queued' = LoadTasks(storage, now)
    /\ phase' = "loaded"
    /\ UNCHANGED <<relay, editingId, showTemplates, templateStorage, form, timers, ops,
                   tasks, storage, selectedTasks, deleteConfirmId, filter, searchQuery,
                   sortBy, now, alertMsg, lastOp, prevTasks,
                   chat>>

\* the save effect of the first render, which still sees tasks = []
MountSaveEffect ==
    /\ phase = "loaded"
    /\ storage' = SaveEffect(tasks, storage)
    /\ phase' = "flushed"
    /\ UNCHANGED <<relay, editingId, showTemplates, templateStorage, form, timers, ops,
                   tasks, queued, selectedTasks, deleteConfirmId, filter, searchQuery,
                   sortBy, now, alertMsg, lastOp, prevTasks,
                   chat>>

\* the re-render with the loaded list, and the save effect it triggers
MountCommit ==
    /\ phase = "flushed"
    /\ tasks' = queued
    /\ queued' = <<>>
    /\ prevTasks' = tasks
    /\ lastOp' = Op("load", NoId, 0)
    /\ IF RenderOk(queued)
       THEN storage' = SaveEffect(queued, storage) /\ phase' = "ready"
       ELSE storage' = storage /\ phase' = "crashed"
    /\ UNCHANGED <<relay, editingId, showTemplates, templateStorage, form, timers, ops,
                   selectedTasks, deleteConfirmId, filter, searchQuery, sortBy, now,
                   alertMsg,
                   chat>>

\* setTasks(ts) by a handler, the re-render and the save effect it triggers
Commit(ts, op) ==
    /\ tasks' = ts
    /\ prevTasks' = tasks
    /\ lastOp' = op
    /\ IF RenderOk(ts)
       THEN storage' = SaveEffect(ts, storage) /\ phase' = phase
       ELSE storage' = storage /\ phase' = "crashed"

\* a handler that leaves the task list alone
Record(op) == lastOp' = op /\ prevTasks' = tasks

\* one more user operation
UserOp == ops < MaxOps /\ ops' = ops + 1

\* time passes
Tick ==
    /\ phase = "ready"
    /\ now < Epoch + MaxTicks
    /\ now' = now + 1
    /\ UNCHANGED <<relay, editingId, showTemplates, templateStorage, form, timers, ops,
                   phase, tasks, queued, storage, selectedTasks, deleteConfirmId, filter,
                   searchQuery, sortBy, alertMsg, lastOp, prevTasks,
                   chat>>

\* handleAddTask, on the form contents it reads
HandleAddTask(newTaskTitle, newTaskDescription, newTaskPriority, newTaskDueDate, newTaskCategory) ==
    /\ phase = "ready"
    /\ UserOp
    /\ Len(tasks) < MaxTasks
    /\ LET taskTitle == Trim(newTaskTitle) IN
         IF taskTitle = <<>>
         THEN /\ Record(Op("add", NoId, 0))
              /\ form' = Form(newTaskTitle, newTaskDescription, newTaskPriority,
                              newTaskDueDate, newTaskCategory)
              /\ UNCHANGED <<phase, tasks, storage>>
         ELSE /\ Commit(Append(tasks, NewTask(now, taskTitle, OrUndefined(Trim(newTaskDescription)),
                                              newTaskPriority, OrUndefined(newTaskDueDate),
                                              OrUndefined(Trim(newTaskCategory)), now)),
                        Op("add", now, 0))
              /\ form' = EmptyForm
    /\ UNCHANGED <<relay, editingId, showTemplates, templateStorage, timers, queued,
                   selectedTasks, deleteConfirmId, filter, searchQuery, sortBy, now,
                   alertMsg,
                   chat>>

ToggleTaskStatus(id) ==
    /\ phase = "ready"
    /\ UserOp
    /\ id \in VisibleIds
    /\ Commit(ToggleStatus(tasks, id, now),
              Op("toggle", id, IF lastOp.op = "toggle" /\ lastOp.id = id THEN lastOp.arg + 1 ELSE 1))
    /\ UNCHANGED <<relay, editingId, showTemplates, templateStorage, form, timers, queued,
                   selectedTasks, deleteConfirmId, filter, searchQuery, sortBy, now,
                   alertMsg,
                   chat>>

\* the first click on the delete button of a card
ArmDelete(id) ==
    /\ phase = "ready"
    /\ UserOp
    /\ id \in VisibleIds
    /\ deleteConfirmId # id
    /\ deleteConfirmId' = id
    /\ timers' = Append(timers, id)
    /\ Record(Op("arm", id, 0))
    /\ UNCHANGED <<relay, editingId, showTemplates, templateStorage, form, phase, tasks,
                   queued, storage, selectedTasks, filter, searchQuery, sortBy, now,
                   alertMsg,
                   chat>>

\* the click on the delete button of a card whose confirmation is armed
HandleDeleteTask(id) ==
    /\ phase = "ready"
    /\ UserOp
    /\ id \in VisibleIds
    /\ deleteConfirmId = id
    /\ Commit(DeleteTask(tasks, id), Op("delete", id, 0))
    /\ deleteConfirmId' = NoId
    /\ selectedTasks' = selectedTasks \ {id}
    /\ UNCHANGED <<relay, editingId, showTemplates, templateStorage, form, timers, queued,
                   filter, searchQuery, sortBy, now, alertMsg,
                   chat>>

\* the oldest pending timeout fires: setDeleteConfirmId(null)
ConfirmTimeout ==
    /\ timers # <<>>
    /\ timers' = Tail(timers)
    /\ deleteConfirmId' = NoId
    /\ UNCHANGED <<relay, editingId, showTemplates, templateStorage, form, phase, tasks,
                   queued, storage, selectedTasks, filter, searchQuery, sortBy, now,
                   alertMsg, ops, lastOp, prevTasks,
                   chat>>

\* the Escape key
KeyEscape ==
    /\ phase = "ready"
    /\ UserOp
    /\ editingId' = NoId
    /\ showTemplates' = FALSE
    /\ deleteConfirmId' = NoId
    /\ \E blurs \in BOOLEAN :
          LET ts == AfterUnmount(tasks, tasks, editingId, blurs) IN
            IF ts # tasks
            THEN Commit(ts, Op("escape", NoId, 0))
            ELSE /\ Record(Op("escape", NoId, 0))
                 /\ UNCHANGED <<phase, tasks, storage>>
    /\ UNCHANGED <<relay, templateStorage, form, timers, queued, selectedTasks, filter,
                   searchQuery, sortBy, now, alertMsg,
                   chat>>

ToggleSelectTask(id) ==
    /\ phase = "ready"
    /\ UserOp
    /\ id \in VisibleIds
    /\ selectedTasks' = IF id \in selectedTasks THEN selectedTasks \ {id}
                        ELSE selectedTasks \cup {id}
    /\ Record(Op("select", id, 0))
    /\ UNCHANGED <<relay, editingId, showTemplates, templateStorage, form, timers, phase,
                   tasks, queued, storage, deleteConfirmId, filter, searchQuery, sortBy,
                   now, alertMsg,
                   chat>>

\* the Select All / Deselect All button above the cards
SelectAll ==
    /\ phase = "ready"
    /\ UserOp
    /\ FilteredAndSortedTasks # <<>>
    /\ selectedTasks' = IF Cardinality(selectedTasks) = Len(FilteredAndSortedTasks)
                        THEN {} ELSE VisibleIds
    /\ Record(Op("selectAll", NoId, 0))
    /\ UNCHANGED <<relay, editingId, showTemplates, templateStorage, form, timers, phase,
                   tasks, queued, storage, deleteConfirmId, filter, searchQuery, sortBy,
                   now, alertMsg,
                   chat>>

BulkDelete ==
    /\ phase = "ready"
    /\ UserOp
    /\ selectedTasks # {}
    /\ Commit(BulkDeleteTasks(tasks, selectedTasks), Op("bulkDelete", NoId, 0))
    /\ selectedTasks' = {}
    /\ UNCHANGED <<relay, editingId, showTemplates, templateStorage, form, timers, queued,
                   deleteConfirmId, filter, searchQuery, sortBy, now, alertMsg,
                   chat>>

BulkComplete ==
    /\ phase = "ready"
    /\ UserOp
    /\ selectedTasks # {}
    /\ Commit(BulkCompleteTasks(tasks, selectedTasks, now), Op("bulkComplete", NoId, 0))
    /\ selectedTasks' = {}
    /\ UNCHANGED <<relay, editingId, showTemplates, templateStorage, form, timers, queued,
                   deleteConfirmId, filter, searchQuery, sortBy, now, alertMsg,
                   chat>>

BulkUpdatePriority(priority) ==
    /\ phase = "ready"
    /\ UserOp
    /\ selectedTasks # {}
    /\ Commit(BulkPriorityTasks(tasks, selectedTasks, priority),
              Op("bulkPriority", NoId, PriorityOrder(priority)))
    /\ selectedTasks' = {}
    /\ UNCHANGED <<relay, editingId, showTemplates, templateStorage, form, timers, queued,
                   deleteConfirmId, filter, searchQuery, sortBy, now, alertMsg,
                   chat>>

\* a drop on the card of task targetId of a drag that carries draggedId
OnDrop(draggedId, targetId) ==
    /\ phase = "ready"
    /\ UserOp
    /\ targetId \in VisibleIds
    /\ IF draggedId # targetId
       THEN Commit(Reorder(tasks, draggedId, targetId), Op("drop", draggedId, targetId))
       ELSE /\ Record(Op("drop", draggedId, targetId))
            /\ UNCHANGED <<phase, tasks, storage>>
    /\ UNCHANGED <<relay, editingId, showTemplates, templateStorage, form, timers, queued,
                   selectedTasks, deleteConfirmId, filter, searchQuery, sortBy, now,
                   alertMsg,
                   chat>>

\* importTasks and the onload callback of its FileReader, on the file ImportDocs[d]
ImportTasks(d) ==
    /\ phase = "ready"
    /\ UserOp
    /\ LET doc == ImportDocs[d] IN
         CASE doc.kind = "invalid" ->
                /\ alertMsg' = "Error importing file"
                /\ Record(Op("import", NoId, d))
                /\ UNCHANGED <<phase, tasks, storage>>
           [] doc.kind = "array" ->
                /\ Commit(ParseItems(doc), Op("import", NoId, d))
                /\ alertMsg' = "Imported tasks successfully!"
           [] OTHER ->
                /\ alertMsg' = "Invalid file format"
                /\ Record(Op("import", NoId, d))
                /\ UNCHANGED <<phase, tasks, storage>>
    /\ UNCHANGED <<relay, editingId, showTemplates, templateStorage, form, timers, queued,
                   selectedTasks, deleteConfirmId, filter, searchQuery, sortBy, now,
                   chat>>

\* the ids of the tasks of the list
TaskIds == {tasks[i].id : i \in {j \in DOMAIN tasks : "id" \in DOMAIN tasks[j]}}

Next ==
    \/ MountLoadEffect
    \/ MountSaveEffect
    \/ MountCommit
    \/ Tick
    \/ \E title \in AddTitles, priority \in AddPriorities :
          HandleAddTask(title, AddDescription, priority, AddDueDate, AddCategory)
    \/ \E id \in TaskIds : ToggleTaskStatus(id)
    \/ \E id \in TaskIds : ArmDelete(id)
    \/ \E id \in TaskIds : HandleDeleteTask(id)
    \/ ConfirmTimeout
    \/ KeyEscape
    \/ \E id \in TaskIds : ToggleSelectTask(id)
    \/ SelectAll
    \/ BulkDelete
    \/ BulkComplete
    \/ \E priority \in BulkPriorities : BulkUpdatePriority(priority)
    \/ \E draggedId \in TaskIds \cup {NoId}, targetId \in TaskIds : OnDrop(draggedId, targetId)
    \/ \E d \in DOMAIN ImportDocs : ImportTasks(d)

Spec == Init /\ [][Next]_vars

---------------------------------------------------------------------------
(* The view controls, on a page that shows a given list *)

SortTypes == {"date", "priority", "dueDate", "alphabetical"}

\* due dates: 2024-02-10, 2024-10-02 and 2025-01-01
DateA == <<"2", "0", "2", "4", "-", "0", "2", "-", "1", "0">>
DateB == <<"2", "0", "2", "4", "-", "1", "0", "-", "0", "2">>
DateC == <<"2", "0", "2", "5", "-", "0", "1", "-", "0", "1">>

\* the tasks the lists of the view specification are made of
ViewPool ==
    { NewTask(1, <<"A", "b">>, None, "Low", None, None, 1),
      [NewTask(2, <<"c">>, Some(<<"a", "B">>), "Urgent", Some(DateB), None, 2)
          EXCEPT !.status = "Completed", !.completedAt = Some(2)],
      NewTask(3, <<"c">>, None, "Medium", Some(DateC), Some(<<"B">>), 3),
      [NewTask(4, <<"d">>, None, "High", None, None, 4)
          EXCEPT !.status = "Completed", !.completedAt = Some(4)],
      NewTask(5, <<"a", "B">>, None, "Low", Some(DateA), None, 5) }

ViewLists ==
    UNION { {l \in [1 .. n -> ViewPool] : \A i, j \in 1 .. n : i # j => l[i] # l[j]} :
            n \in 0 .. MaxViewTasks }

\* what the user types into the search box
ViewQueries == { <<>>, <<"a", "b">>, <<"B">>, <<"z">> }

InitView ==
    /\ phase = "ready"
    /\ tasks \in ViewLists
    /\ queued = <<>>
    /\ storage = Stringify(tasks)
    /\ selectedTasks = {}
    /\ deleteConfirmId = NoId
    /\ timers = <<>>
    /\ form = EmptyForm
    /\ editingId = NoId
    /\ showTemplates = FALSE
    /\ templateStorage = NoItem
    /\ relay = RelayIdle
    /\ chat = ChatUnmounted
    /\ filter = "All"
    /\ searchQuery = <<>>
    /\ sortBy = "date"
    /\ now = Epoch
    /\ alertMsg = ""
    /\ ops = 0
    /\ lastOp = Op("none", NoId, 0)
    /\ prevTasks = <<>>

SetFilter(f) ==
    /\ phase = "ready"
    /\ filter' = f
    /\ UNCHANGED <<relay, editingId, showTemplates, templateStorage, form, timers, phase,
                   tasks, queued, storage, selectedTasks, deleteConfirmId, searchQuery,
                   sortBy, now, alertMsg, ops, lastOp, prevTasks,
                   chat>>

SetSearchQuery(q) ==
    /\ phase = "ready"
    /\ searchQuery' = q
    /\ UNCHANGED <<relay, editingId, showTemplates, templateStorage, form, timers, phase,
                   tasks, queued, storage, selectedTasks, deleteConfirmId, filter, sortBy,
                   now, alertMsg, ops, lastOp, prevTasks,
                   chat>>

SetSortBy(by) ==
    /\ phase = "ready"
    /\ sortBy' = by
    /\ UNCHANGED <<relay, editingId, showTemplates, templateStorage, form, timers, phase,
                   tasks, queued, storage, selectedTasks, deleteConfirmId, filter,
                   searchQuery, now, alertMsg, ops, lastOp, prevTasks,
                   chat>>

NextView ==
    \/ \E f \in FilterTypes : SetFilter(f)
    \/ \E q \in ViewQueries : SetSearchQuery(q)
    \/ \E by \in SortTypes : SetSortBy(by)

SpecView == InitView /\ [][NextView]_vars

---------------------------------------------------------------------------
(* Properties of the view projection *)

\* the two strings are equal up to the case of their letters
EqualIgnoringCase(s, t) ==
    Len(s) = Len(t) /\ \A i \in 1 .. Len(s) : LowerChar(s[i]) = LowerChar(t[i])

\* the text contains the query, case-insensitively
ContainsIgnoringCase(text, q) ==
    \E i \in 1 .. (Len(text) - Len(q) + 1) :
        EqualIgnoringCase(SubSeq(text, i, i + Len(q) - 1), q)

\* the task's title, description or category contains the search query
TextMatches(task) ==
    \/ ContainsIgnoringCase(task.title, searchQuery)
    \/ task.description # None /\ ContainsIgnoringCase(task.description[1], searchQuery)
    \/ task.category # None /\ ContainsIgnoringCase(task.category[1], searchQuery)

StatusMatches(task) == filter = "All" \/ task.status = filter

Shown(task) == \E j \in DOMAIN FilteredAndSortedTasks : FilteredAndSortedTasks[j] = task

\* C9: the projection holds exactly the tasks that satisfy the status filter
\* and, when the search query is not empty, contain the query
\* case-insensitively in their title, description or category.
C9_ProjectionIsStatusAndSearch ==
    phase = "ready" =>
        /\ \A i \in DOMAIN tasks :
              Shown(tasks[i]) <=>
                  (StatusMatches(tasks[i]) /\ (searchQuery # <<>> => TextMatches(tasks[i])))
        /\ Len(FilteredAndSortedTasks) =
              Cardinality({i \in DOMAIN tasks :
                  StatusMatches(tasks[i]) /\ (searchQuery # <<>> => TextMatches(tasks[i]))})

\* a task matches the status filter, not the search text, and is left out,
\* while another task is shown
C9_Witness ==
    /\ filter = "Pending"
    /\ searchQuery # <<>>
    /\ \E i \in DOMAIN tasks :
          StatusMatches(tasks[i]) /\ ~TextMatches(tasks[i]) /\ ~Shown(tasks[i])
    /\ \E i \in DOMAIN tasks : Shown(tasks[i])

\* C10 as stated: with a search query present, a task whose text matches the
\* query is shown whatever the status filter.
C10_SearchReplacesStatusFilter ==
    phase = "ready" =>
        \A i \in DOMAIN tasks :
            (searchQuery # <<>> /\ TextMatches(tasks[i])) => Shown(tasks[i])

\* C10 amended: with a search query present the status filter still applies:
\* a task whose status does not match the selected Pending or Completed filter
\* is not shown, even when its text matches the query.
C10_SearchNarrowsStatusFilter ==
    phase = "ready" =>
        \A i \in DOMAIN tasks :
            (searchQuery # <<>> /\ filter # "All" /\ tasks[i].status # filter)
                => ~Shown(tasks[i])

\* a Completed task matches the query and is hidden by the Pending filter
C10_Witness ==
    /\ filter = "Pending"
    /\ searchQuery # <<>>
    /\ \E i \in DOMAIN tasks :
          tasks[i].status = "Completed" /\ TextMatches(tasks[i]) /\ ~Shown(tasks[i])

---------------------------------------------------------------------------
(* Properties of the task list *)

\* the step is a user operation named name
Does(name) == ops' = ops + 1 /\ lastOp'.op = name

\* the index of the first task of ts with the id
IndexOfId(ts, id) == CHOOSE i \in DOMAIN ts : ts[i].id = id /\ \A j \in 1 .. (i - 1) : ts[j].id # id

\* ts without its k-th element
RemoveAt(ts, k) == SubSeq(ts, 1, k - 1) \o SubSeq(ts, k + 1, Len(ts))

\* the step is a toggle of the task that the operation before it toggled
SecondToggle ==
    Does("toggle") /\ lastOp.op = "toggle" /\ lastOp'.id = lastOp.id /\ lastOp'.arg = lastOp.arg + 1

\* C1 as stated: two toggles in a row of a task return it to its original
\* status and to its original completedAt, whether it started Pending or
\* Completed (prevTasks is the list before the first of the two toggles).
\* Stated for the tasks that start with completedAt present exactly when they
\* are Completed, so that a violation does not rest on a seed task.
C1_ToggleTwiceRestores ==
    [][SecondToggle =>
        \A i \in DOMAIN prevTasks :
            (/\ prevTasks[i].id = lastOp.id
             /\ (prevTasks[i].completedAt # None) <=> (prevTasks[i].status = "Completed")) =>
                /\ tasks'[i].status = prevTasks[i].status
                /\ tasks'[i].completedAt = prevTasks[i].completedAt]_vars

\* C1 amended: two toggles in a row of a task return it to its original
\* status; a task that started Pending ends without completedAt, a task that
\* started Completed ends with completedAt set to the time of the second
\* toggle; the other tasks are as they were.
C1_ToggleTwice ==
    [][SecondToggle =>
        /\ Len(tasks') = Len(prevTasks)
        /\ \A i \in DOMAIN prevTasks :
              IF prevTasks[i].id = lastOp.id
              THEN /\ tasks'[i].status = prevTasks[i].status
                   /\ tasks'[i].completedAt =
                         IF prevTasks[i].status = "Pending" THEN None ELSE Some(now)
                   /\ [tasks'[i] EXCEPT !.completedAt = None]
                         = [prevTasks[i] EXCEPT !.completedAt = None]
              ELSE tasks'[i] = prevTasks[i]]_vars

\* a task has been toggled twice in a row, to Pending and back to Completed,
\* and carries the present time as completedAt
C1_Witness ==
    /\ phase = "ready"
    /\ lastOp.op = "toggle" /\ lastOp.arg = 2
    /\ \E i \in DOMAIN tasks :
          /\ tasks[i].id = lastOp.id
          /\ tasks[i].status = "Completed" /\ tasks[i].completedAt = Some(now)
          /\ prevTasks[i].status = "Pending" /\ prevTasks[i].completedAt = None
          /\ tasks[i].createdAt < now

\* C2 as stated: once the list is loaded, a task has completedAt if and only
\* if its status is Completed.
C2_CompletedAtIffCompleted ==
    phase = "ready" =>
        \A i \in DOMAIN tasks : (tasks[i].completedAt # None) <=> (tasks[i].status = "Completed")

\* the ids of the list are pairwise different
UniqueIds(ts) == \A i, j \in DOMAIN ts : i # j => ts[i].id # ts[j].id

\* C3 as stated: a drop of draggedId on a different task targetId, both in
\* the list, puts the dragged task immediately before the target task and
\* keeps the relative order of the other tasks; a drop of a task on itself
\* leaves the list unchanged.
C3_DraggedLandsBeforeTarget ==
    [][(Does("drop") /\ UniqueIds(tasks) /\ lastOp'.id \in TaskIds) =>
        LET d == IndexOfId(tasks, lastOp'.id)
            t == IndexOfId(tasks, lastOp'.arg)
        IN IF d = t THEN tasks' = tasks
           ELSE /\ Len(tasks') = Len(tasks)
                /\ \E k \in 1 .. (Len(tasks) - 1) :
                      /\ tasks'[k] = tasks[d]
                      /\ tasks'[k + 1] = tasks[t]
                      /\ RemoveAt(tasks', k) = RemoveAt(tasks, d)]_vars

\* C3 amended: a drop of draggedId on a different id targetId, both in the
\* list, moves the first task with draggedId to the position the first task
\* with targetId had: it lands immediately before the target when it was
\* after it and immediately after the target when it was before it; the
\* relative order of the other tasks is kept; a drop of a task on itself
\* leaves the list unchanged.
C3_DraggedTakesTargetPosition ==
    [][(Does("drop") /\ lastOp'.id \in TaskIds) =>
        LET d == IndexOfId(tasks, lastOp'.id)
            t == IndexOfId(tasks, lastOp'.arg)
        IN IF lastOp'.id = lastOp'.arg THEN tasks' = tasks
           ELSE /\ Len(tasks') = Len(tasks)
                /\ tasks'[t] = tasks[d]
                /\ RemoveAt(tasks', t) = RemoveAt(tasks, d)
                /\ d > t => tasks'[t + 1] = tasks[t]
                /\ d < t => tasks'[t - 1] = tasks[t]]_vars

\* in a list of three tasks the first one was dropped on the second one and
\* now follows it, the third one staying last
C3_Witness ==
    /\ phase = "ready"
    /\ lastOp.op = "drop"
    /\ Len(tasks) = 3 /\ Len(prevTasks) = 3
    /\ UniqueIds(prevTasks)
    /\ prevTasks[1].id = lastOp.id /\ prevTasks[2].id = lastOp.arg
    /\ tasks = <<prevTasks[2], prevTasks[1], prevTasks[3]>>

C5_AddedIdIsFresh ==
    [][(Does("add") /\ tasks' # tasks) =>
        \A i \in DOMAIN tasks : tasks[i].id # tasks'[Len(tasks')].id]_vars

\* C6 as stated: handleDeleteTask(id) removes exactly the targeted task: the
\* list afterwards is the list before without one task of that id, every
\* other task unchanged and in the same order.
C6_DeleteRemovesOneTask ==
    [][Does("delete") =>
        \E k \in DOMAIN tasks : tasks[k].id = lastOp'.id /\ tasks' = RemoveAt(tasks, k)]_vars

\* C7: bulkComplete turns every selected Pending task into Completed stamped
\* with the present time, leaves the status and completedAt of the tasks
\* outside the selection unchanged, and leaves every Completed task Completed
\* with its completedAt unchanged.
C7_BulkCompleteOnlyCompletesSelectedPending ==
    [][Does("bulkComplete") =>
        /\ Len(tasks') = Len(tasks)
        /\ \A i \in DOMAIN tasks :
              /\ (tasks[i].id \in selectedTasks /\ tasks[i].status = "Pending") =>
                    (tasks'[i].status = "Completed" /\ tasks'[i].completedAt = Some(now))
              /\ tasks[i].id \notin selectedTasks =>
                    (tasks'[i].status = tasks[i].status
                        /\ tasks'[i].completedAt = tasks[i].completedAt)
              /\ tasks[i].status = "Completed" =>
                    (tasks'[i].status = "Completed"
                        /\ tasks'[i].completedAt = tasks[i].completedAt)]_vars

\* a bulkComplete has completed one task, left another one Pending and left
\* a task that was completed earlier as it was
C7_Witness ==
    /\ phase = "ready"
    /\ lastOp.op = "bulkComplete"
    /\ Len(tasks) = Len(prevTasks)
    /\ \E i \in DOMAIN tasks :
          prevTasks[i].status = "Pending" /\ tasks[i].status = "Completed"
    /\ \E i \in DOMAIN tasks :
          prevTasks[i].status = "Pending" /\ tasks[i].status = "Pending"
    /\ \E i \in DOMAIN tasks :
          /\ prevTasks[i].status = "Completed" /\ tasks[i] = prevTasks[i]
          /\ tasks[i].completedAt # None /\ tasks[i].completedAt # Some(now)

\* the document is an array of task-shaped records
IsTaskArray(doc) ==
    doc.kind = "array" /\ \A i \in DOMAIN doc.items : RequiredKeys \subseteq DOMAIN doc.items[i]

\* C8 as stated: an import replaces the list with the parsed document if and
\* only if the document is an array of task-shaped records; for any other
\* document the list is unchanged, an error alert is shown and the page does
\* not fail.
C8_ImportOnlyTaskArrays ==
    [][Does("import") =>
        LET doc == ImportDocs[lastOp'.arg] IN
          IF IsTaskArray(doc)
          THEN tasks' = ParseItems(doc) /\ phase' = "ready"
          ELSE /\ tasks' = tasks
               /\ alertMsg' \in {"Invalid file format", "Error importing file"}
               /\ phase' = "ready"]_vars

---------------------------------------------------------------------------
(* The new-task form, on a page that shows a given list *)

\* what the user types into the title field, and the priorities the user picks
FormTitles == { <<>>, <<" ">>, <<" ", "a", " ">>, <<"b">> }
FormPriorities == {"Low", "Urgent"}

InitForm ==
    /\ phase = "ready"
    /\ tasks \in {<<>>, StoredTasks}
    /\ queued = <<>>
    /\ storage = Stringify(tasks)
    /\ selectedTasks = {}
    /\ deleteConfirmId = NoId
    /\ timers = <<>>
    /\ form = EmptyForm
    /\ editingId = NoId
    /\ showTemplates = FALSE
    /\ templateStorage = NoItem
    /\ relay = RelayIdle
    /\ chat = ChatUnmounted
    /\ filter = "All"
    /\ searchQuery = <<>>
    /\ sortBy = "date"
    /\ now = Epoch
    /\ alertMsg = ""
    /\ ops = 0
    /\ lastOp = Op("none", NoId, 0)
    /\ prevTasks = <<>>

\* the title field's onChange
SetNewTaskTitle(title) ==
    /\ phase = "ready"
    /\ form' = [form EXCEPT !.title = title]
    /\ UNCHANGED <<relay, editingId, showTemplates, templateStorage, phase, tasks, queued,
                   storage, selectedTasks, deleteConfirmId, timers, filter, searchQuery,
                   sortBy, now, alertMsg, ops, lastOp, prevTasks,
                   chat>>

\* the priority select's onChange
SetNewTaskPriority(priority) ==
    /\ phase = "ready"
    /\ form' = [form EXCEPT !.priority = priority]
    /\ UNCHANGED <<relay, editingId, showTemplates, templateStorage, phase, tasks, queued,
                   storage, selectedTasks, deleteConfirmId, timers, filter, searchQuery,
                   sortBy, now, alertMsg, ops, lastOp, prevTasks,
                   chat>>

\* the Cancel button of the form
CancelForm ==
    /\ phase = "ready"
    /\ form' = EmptyForm
    /\ UNCHANGED <<relay, editingId, showTemplates, templateStorage, phase, tasks, queued,
                   storage, selectedTasks, deleteConfirmId, timers, filter, searchQuery,
                   sortBy, now, alertMsg, ops, lastOp, prevTasks,
                   chat>>

\* the Add Task button, or Enter in the title field
SubmitForm ==
    HandleAddTask(form.title, form.description, form.priority, form.dueDate, form.category)

NextForm ==
    \/ \E title \in FormTitles : SetNewTaskTitle(title)
    \/ \E priority \in FormPriorities : SetNewTaskPriority(priority)
    \/ CancelForm
    \/ SubmitForm
    \/ Tick

SpecForm == InitForm /\ [][NextForm]_vars

---------------------------------------------------------------------------
(* Editing a title in place, on a page that shows a given list *)

\* what the title input holds after a key stroke
EditTitles == { <<>>, <<" ">>, <<"c">> }

InitEdit ==
    /\ phase = "ready"
    /\ tasks = StoredTasks
    /\ queued = <<>>
    /\ storage = Stringify(tasks)
    /\ selectedTasks = {}
    /\ deleteConfirmId = NoId
    /\ timers = <<>>
    /\ form = EmptyForm
    /\ editingId = NoId
    /\ showTemplates = FALSE
    /\ templateStorage = NoItem
    /\ relay = RelayIdle
    /\ chat = ChatUnmounted
    /\ filter = "All"
    /\ searchQuery = <<>>
    /\ sortBy = "date"
    /\ now = Epoch
    /\ alertMsg = ""
    /\ ops = 0
    /\ lastOp = Op("none", NoId, 0)
    /\ prevTasks = <<>>

\* a click on the title of a card
StartEdit(id) ==
    /\ phase = "ready"
    /\ id \in VisibleIds
    /\ editingId' = id
    /\ UNCHANGED <<relay, phase, tasks, queued, storage, selectedTasks, deleteConfirmId,
                   showTemplates, templateStorage, form, timers, filter, searchQuery,
                   sortBy, now, alertMsg, ops, lastOp, prevTasks,
                   chat>>

\* onChange of the title input of card k, the input now holding value:
\* handleUpdateTask(task.id, { title: value }), which also ends the edit
ChangeTitle(k, value) ==
    /\ phase = "ready"
    /\ UserOp
    /\ k \in DOMAIN tasks
    /\ editingId # NoId
    /\ tasks[k].id = editingId
    /\ editingId \in VisibleIds
    /\ \E blurs \in BOOLEAN :
          Commit(AfterUnmount(UpdateTask(tasks, tasks[k].id, [title |-> value]),
                              tasks, editingId, blurs),
                 Op("title", tasks[k].id, 0))
    /\ editingId' = NoId
    /\ UNCHANGED <<relay, queued, selectedTasks, deleteConfirmId, showTemplates,
                   templateStorage, form, timers, filter, searchQuery, sortBy, now,
                   alertMsg,
                   chat>>

\* onBlur of the title input of card k (Enter blurs the input)
BlurTitle(k) ==
    /\ phase = "ready"
    /\ UserOp
    /\ k \in DOMAIN tasks
    /\ editingId # NoId
    /\ tasks[k].id = editingId
    /\ editingId \in VisibleIds
    /\ IF TitleBlur(tasks, k) # tasks
       THEN Commit(TitleBlur(tasks, k), Op("blur", tasks[k].id, 0))
       ELSE /\ Record(Op("blur", tasks[k].id, 0))
            /\ UNCHANGED <<phase, tasks, storage>>
    /\ editingId' = NoId
    /\ UNCHANGED <<relay, queued, selectedTasks, deleteConfirmId, showTemplates,
                   templateStorage, form, timers, filter, searchQuery, sortBy, now,
                   alertMsg,
                   chat>>

NextEdit ==
    \/ \E id \in TaskIds : StartEdit(id)
    \/ \E k \in 1 .. MaxTasks, value \in EditTitles : ChangeTitle(k, value)
    \/ \E k \in 1 .. MaxTasks : BlurTitle(k)
    \/ KeyEscape

SpecEdit == InitEdit /\ [][NextEdit]_vars

\* s has no character other than white space
Blank(s) == \A k \in DOMAIN s : s[k] \in WhiteSpace

\* C15 as stated: no task has an empty title, and when no title is being edited no task
\* has a title of white space only
C15_TitleNeverBlank ==
    \A i \in DOMAIN tasks :
        /\ tasks[i].title # <<>>
        /\ editingId = NoId => ~Blank(tasks[i].title)

---------------------------------------------------------------------------
(* Templates, on a page that shows a given list *)

\* a list with a completed task and a task whose title has the marker inside
TemplateTasks ==
    << [NewTask(1, <<"a">>, None, "High", None, None, 1)
           EXCEPT !.status = "Completed", !.completedAt = Some(2)],
       NewTask(2, <<"A">> \o TemplateMarker \o <<" ", "b">>, None, "Low", None, None, 2) >>

InitTemplates ==
    /\ phase = "ready"
    /\ tasks \in {StoredTasks, TemplateTasks}
    /\ queued = <<>>
    /\ storage = Stringify(tasks)
    /\ selectedTasks = {}
    /\ deleteConfirmId = NoId
    /\ timers = <<>>
    /\ form = EmptyForm
    /\ editingId = NoId
    /\ showTemplates = FALSE
    /\ templateStorage = NoItem
    /\ relay = RelayIdle
    /\ chat = ChatUnmounted
    /\ filter = "All"
    /\ searchQuery = <<>>
    /\ sortBy = "date"
    /\ now = Epoch
    /\ alertMsg = ""
    /\ ops = 0
    /\ lastOp = Op("none", NoId, 0)
    /\ prevTasks = <<>>

\* the Save as Template button of card k
SaveAsTemplate(k) ==
    /\ phase = "ready"
    /\ UserOp
    /\ ~showTemplates
    /\ k \in DOMAIN tasks
    /\ tasks[k].id \in VisibleIds
    /\ templateStorage' = SaveTemplate(templateStorage, tasks[k], now)
    /\ Record(Op("saveAsTemplate", tasks[k].id, k))
    /\ UNCHANGED <<relay, phase, tasks, queued, storage, selectedTasks, deleteConfirmId,
                   editingId, showTemplates, form, timers, filter, searchQuery, sortBy, now,
                   alertMsg,
                   chat>>

\* the Templates button
OpenTemplates ==
    /\ phase = "ready"
    /\ ~showTemplates
    /\ showTemplates' = TRUE
    /\ UNCHANGED <<relay, phase, tasks, queued, storage, selectedTasks, deleteConfirmId,
                   editingId, templateStorage, form, timers, filter, searchQuery, sortBy,
                   now, alertMsg, ops, lastOp, prevTasks,
                   chat>>

\* the Close button of the dialog, or a click beside it
CloseTemplates ==
    /\ phase = "ready"
    /\ showTemplates
    /\ showTemplates' = FALSE
    /\ UNCHANGED <<relay, phase, tasks, queued, storage, selectedTasks, deleteConfirmId,
                   editingId, templateStorage, form, timers, filter, searchQuery, sortBy,
                   now, alertMsg, ops, lastOp, prevTasks,
                   chat>>

\* the Use button of entry j of the dialog: useTemplate(template)
UseTemplate(j) ==
    /\ phase = "ready"
    /\ UserOp
    /\ showTemplates
    /\ Len(tasks) < MaxTasks
    /\ j \in DOMAIN LoadTemplates(templateStorage)
    /\ Commit(Append(tasks, TaskFromTemplate(LoadTemplates(templateStorage)[j], now)),
              Op("useTemplate", now, j))
    /\ showTemplates' = FALSE
    /\ UNCHANGED <<relay, queued, selectedTasks, deleteConfirmId, editingId,
                   templateStorage, form, timers, filter, searchQuery, sortBy, now,
                   alertMsg,
                   chat>>

NextTemplates ==
    \/ \E k \in 1 .. MaxTasks : SaveAsTemplate(k)
    \/ OpenTemplates
    \/ CloseTemplates
    \/ \E j \in 1 .. MaxOps : UseTemplate(j)
    \/ Tick

SpecTemplates == InitTemplates /\ [][NextTemplates]_vars

\* the ids of the records of a list
IdsOf(ts) == {ts[i].id : i \in DOMAIN ts}

\* C16 as stated: saveAsTemplate(task) appends to the stored template list one record
\* with a new id and the task's title followed by " (Template)", which carries the
\* task's other fields but not its status, createdAt and completedAt; the task list
\* is not changed
C16_TemplateDropsStatusAndTimestamps ==
    [][Does("saveAsTemplate") =>
        LET task == tasks[lastOp'.arg]
            before == LoadTemplates(templateStorage)
            after == templateStorage'.items
        IN /\ tasks' = tasks
           /\ Len(after) = Len(before) + 1
           /\ \A i \in DOMAIN before : Revive(after[i]) = before[i]
           /\ LET template == after[Len(after)]
              IN /\ template.id \notin IdsOf(tasks) \cup IdsOf(before)
                 /\ template.title = task.title \o TemplateMarker
                 /\ DOMAIN template \cap {"status", "createdAt", "completedAt"} = {}
                 /\ \A key \in {"priority", "subtasks"} : template[key] = task[key]
                 /\ \A key \in {"description", "dueDate", "category"} :
                       IF task[key] = None THEN key \notin DOMAIN template
                       ELSE template[key] = task[key][1]]_vars

\* s without the marker at its end, s itself when it does not end with the marker
WithoutMarkerSuffix(s) ==
    LET n == Len(s) - Len(TemplateMarker)
    IN IF n >= 0 /\ SubSeq(s, n + 1, Len(s)) = TemplateMarker THEN SubSeq(s, 1, n) ELSE s

\* C17 as stated: useTemplate(template) appends one task with an id no task has, status
\* Pending, createdAt the present time, no completedAt and the template's title
\* without the marker at its end, so that a template saved from a task titled T gives
\* a task titled T
C17_TemplateRoundTrip ==
    [][Does("useTemplate") =>
        LET template == LoadTemplates(templateStorage)[lastOp'.arg]
            added == tasks'[Len(tasks')]
        IN /\ Len(tasks') = Len(tasks) + 1
           /\ \A i \in DOMAIN tasks : tasks'[i] = tasks[i]
           /\ added.id \notin IdsOf(tasks)
           /\ added.status = "Pending"
           /\ added.createdAt = now
           /\ added.completedAt = None
           /\ added.title = WithoutMarkerSuffix(template.title)
           /\ \A k \in DOMAIN tasks :
                 template.title = tasks[k].title \o TemplateMarker =>
                     added.title = tasks[k].title]_vars

---------------------------------------------------------------------------
(* The chat relay: POST /api/chat *)

\* the todo page, which the relay does not touch
pageVars ==
    <<phase, tasks, queued, storage, selectedTasks, deleteConfirmId, editingId,
      showTemplates, templateStorage, form, timers, filter, searchQuery, sortBy, now,
      alertMsg, ops, lastOp, prevTasks, chat>>

\* SYSTEM_PROMPT, its text cut down to its first words and its last
SystemPrompt ==
    <<"Y", "o", "u", " ", "a", "r", "e", " ", "t", "o", " ", "t", "h", "e", " ",
      "p", "o", "i", "n", "t", ".">>

\* "\n\nUser: " between the prompt and the message
UserLabel == <<"\n", "\n", "U", "s", "e", "r", ":", " ">>

\* .slice(-10)
HistoryLimit == 10

\* the values body.message is drawn from: nothing, a number, strings
JsonUndefined == [type |-> "undefined"]
JsonNumber == [type |-> "number"]
JsonString(chars) == [type |-> "string", value |-> chars]

\* !message || typeof message !== "string"
MessageRejected(message) == message.type # "string" \/ message.value = <<>>

\* s.slice(-n)
SliceLast(seq, n) == SubSeq(seq, IF Len(seq) > n THEN Len(seq) - n + 1 ELSE 1, Len(seq))

\* the history handed to startChat: filter, slice, map
BuildHistory(chatHistory, message) ==
    LET kept == SelectSeq(chatHistory,
                          LAMBDA msg : msg.role # "user" \/ msg.content # message)
        last == SliceLast(kept, HistoryLimit)
    IN [i \in DOMAIN last |->
          [role |-> IF last[i].role = "user" THEN "user" ELSE "model",
           parts |-> <<[text |-> last[i].content]>>]]

\* MessageToSend without the prompt
MessageToSendPlain(history, message) == message

\* messageToSend
MessageToSend(history, message) ==
    IF Len(history) = 0 THEN SystemPrompt \o UserLabel \o message ELSE message

ModelNames == <<"gemini-1.5-flash", "gemini-pro", "gemini-1.0-pro", "gemini-1.5-pro">>

\* an error, by the phrases its message includes; an error may have no message
Err(phrases) == [defined |-> TRUE, includes |-> phrases]
NoMessageError == [defined |-> FALSE, includes |-> {}]

\* err.message?.includes(phrase)
ErrorIncludes(err, phrase) == err.defined /\ phrase \in err.includes

\* ModelNotFound that takes every error for a missing model
AnyError(err) == TRUE

ModelNotFound(err) == ErrorIncludes(err, "not found") \/ ErrorIncludes(err, "404")

\* new Error("No available models found"), and the SyntaxError of request.json()
NoModelsError == Err({})
BodyError == Err({})

\* ErrorResponse that does not look at the error
ErrorResponseUnclassified(error) ==
    [status |-> 500, body |-> [error |-> "error.message or the default text"]]

\* the catch block of POST
ErrorResponse(error) ==
    IF ErrorIncludes(error, "API key")
    THEN [status |-> 401, body |-> [error |-> "Invalid Gemini API key"]]
    ELSE IF ErrorIncludes(error, "quota") \/ ErrorIncludes(error, "rate limit")
    THEN [status |-> 429, body |-> [error |-> "API rate limit exceeded"]]
    ELSE IF ModelNotFound(error)
    THEN [status |-> 400, body |-> [error |-> "Model not available with your API key"]]
    ELSE [status |-> 500, body |-> [error |-> "error.message or the default text"]]

\* the response to a reply text
SuccessResponse(text) == [status |-> 200, body |-> [message |-> text, success |-> TRUE]]

\* a request that has reached the relay
NewRequest(configured, body) ==
    [pc |-> "received", configured |-> configured, body |-> body, history |-> <<>>,
     messageToSend |-> <<>>, model |-> 0, calls |-> <<>>, outcomes |-> <<>>,
     lastError |-> None, response |-> None]

\* an alternating conversation of n entries, each with a content of its own
Conversation(n) ==
    [i \in 1 .. n |->
        [role |-> IF i % 2 = 1 THEN "user" ELSE "assistant", content |-> <<Lowers[i]>>]]

\* the longest conversation of a request
MaxHistory == 12

RelayMessages ==
    { JsonUndefined, JsonNumber, JsonString(<<>>), JsonString(<<"h", "i">>),
      JsonString(<<"a">>), JsonString(<<"b">>) }

\* the bodies of the requests: one that does not parse, and for each message a
\* conversation without the message, one that ends with it as the chat components
\* send it, and no chatHistory at all
RelayBodies ==
    {[kind |-> "invalid"]}
    \cup {[kind |-> "json", message |-> m, chatHistory |-> None] : m \in RelayMessages}
    \cup {[kind |-> "json", message |-> m, chatHistory |-> Some(Conversation(n))] :
             m \in RelayMessages, n \in 0 .. MaxHistory}
    \cup {[kind |-> "json", message |-> JsonString(chars),
           chatHistory |-> Some(Append(Conversation(n),
                                       [role |-> "user", content |-> chars]))] :
             chars \in {<<"h", "i">>, <<"a">>, <<"b">>}, n \in 0 .. MaxHistory}

\* the replies and the errors of the upstream model
UpstreamTexts == { <<>>, <<"o", "k">> }
UpstreamErrors ==
    { NoMessageError, Err({}), Err({"not found"}), Err({"404"}), Err({"API key"}),
      Err({"quota"}), Err({"rate limit"}), Err({"API key", "not found"}) }

InitRelay ==
    /\ phase = "ready"
    /\ tasks = <<>>
    /\ queued = <<>>
    /\ storage = Stringify(tasks)
    /\ selectedTasks = {}
    /\ deleteConfirmId = NoId
    /\ timers = <<>>
    /\ form = EmptyForm
    /\ editingId = NoId
    /\ showTemplates = FALSE
    /\ templateStorage = NoItem
    /\ relay \in {NewRequest(configured, body) : configured \in BOOLEAN, body \in RelayBodies}
    /\ chat = ChatUnmounted
    /\ filter = "All"
    /\ searchQuery = <<>>
    /\ sortBy = "date"
    /\ now = Epoch
    /\ alertMsg = ""
    /\ ops = 0
    /\ lastOp = Op("none", NoId, 0)
    /\ prevTasks = <<>>

\* the relay answers
Respond(response) == relay' = [relay EXCEPT !.pc = "done", !.response = Some(response)]

\* POST up to the first upstream call
Post ==
    /\ relay.pc = "received"
    /\ IF ~relay.configured
       THEN Respond([status |-> 500, body |-> [error |-> "Gemini API key is not configured"]])
       ELSE IF relay.body.kind = "invalid"
       THEN Respond(ErrorResponse(BodyError))
       ELSE IF MessageRejected(relay.body.message)
       THEN Respond([status |-> 400,
                     body |-> [error |-> "Message is required and must be a string"]])
       ELSE LET message == relay.body.message.value
                chatHistory == IF relay.body.chatHistory = None THEN <<>>
                               ELSE relay.body.chatHistory[1]
                history == BuildHistory(chatHistory, message)
            IN relay' = [relay EXCEPT !.pc = "calling",
                                      !.history = history,
                                      !.messageToSend = MessageToSend(history, message),
                                      !.model = 1]
    /\ UNCHANGED pageVars

\* the call chat.sendMessage(messageToSend) of the model in turn
Call == [model |-> ModelNames[relay.model], history |-> relay.history,
         message |-> relay.messageToSend]

\* how a call ended: with a reply text, or with an error
Reply(text) == [ok |-> TRUE, text |-> text]
Failure(err) == [ok |-> FALSE, error |-> err]

\* the model in turn replies: the loop ends
UpstreamReplies(text) ==
    /\ relay.pc = "calling"
    /\ LET response ==
             IF text # <<>> THEN SuccessResponse(text)
             ELSE ErrorResponse(IF relay.lastError # None THEN relay.lastError[1]
                                ELSE NoModelsError)
       IN relay' = [relay EXCEPT !.pc = "done", !.calls = Append(@, Call),
                                 !.outcomes = Append(@, Reply(text)),
                                 !.response = Some(response)]
    /\ UNCHANGED pageVars

\* the model in turn fails: the next model is tried after a model-not-found error,
\* and the error is thrown otherwise and after the last model
UpstreamFails(err) ==
    /\ relay.pc = "calling"
    /\ IF ModelNotFound(err) /\ relay.model < Len(ModelNames)
       THEN relay' = [relay EXCEPT !.calls = Append(@, Call),
                                   !.outcomes = Append(@, Failure(err)),
                                   !.lastError = Some(err),
                                   !.model = @ + 1]
       ELSE relay' = [relay EXCEPT !.pc = "done", !.calls = Append(@, Call),
                                   !.outcomes = Append(@, Failure(err)),
                                   !.lastError = Some(err),
                                   !.response = Some(ErrorResponse(err))]
    /\ UNCHANGED pageVars

NextRelay ==
    \/ Post
    \/ \E text \in UpstreamTexts : UpstreamReplies(text)
    \/ \E err \in UpstreamErrors : UpstreamFails(err)

SpecRelay == InitRelay /\ [][NextRelay]_vars

\* the relay has built the history and the message of the request
Forwarding == relay.pc \in {"calling", "done"} /\ relay.model >= 1

\* the chatHistory of the request
RequestHistory ==
    IF relay.body.chatHistory = None THEN <<>> ELSE relay.body.chatHistory[1]

\* C19 as stated: the history forwarded upstream is the last 10 entries of the
\* request's chatHistory, in order, all of them when there are fewer
C19_ForwardsLastTenOfChatHistory ==
    Forwarding =>
        LET n == Len(RequestHistory)
            first == IF n > 10 THEN n - 10 ELSE 0
        IN /\ Len(relay.history) = n - first
           /\ \A i \in DOMAIN relay.history :
                 /\ relay.history[i].parts[1].text = RequestHistory[first + i].content
                 /\ (relay.history[i].role = "user") = (RequestHistory[first + i].role = "user")

\* s begins with p, s ends with q
StartsWith(s, p) == Len(s) >= Len(p) /\ SubSeq(s, 1, Len(p)) = p
EndsWith(s, q) == Len(s) >= Len(q) /\ SubSeq(s, Len(s) - Len(q) + 1, Len(s)) = q

SaysNotFound(err) == err.defined /\ err.includes \cap {"not found", "404"} # {}

\* C21: the calls of one request go to the candidate models in their fixed order, at
\* most four of them; every call but the last one failed with a model-not-found
\* error, and while the relay is still calling every call so far has failed so
C21_FallbackOrder ==
    relay.pc \in {"calling", "done"} =>
        /\ Len(relay.calls) <= 4
        /\ Len(relay.outcomes) = Len(relay.calls)
        /\ \A i \in DOMAIN relay.calls :
              /\ relay.calls[i].model =
                    <<"gemini-1.5-flash", "gemini-pro", "gemini-1.0-pro", "gemini-1.5-pro">>[i]
              /\ (i < Len(relay.calls) \/ relay.pc = "calling") =>
                    (~relay.outcomes[i].ok /\ SaysNotFound(relay.outcomes[i].error))
        /\ relay.pc = "calling" => Len(relay.calls) < 4 /\ relay.model = Len(relay.calls) + 1
        /\ relay.pc = "done" /\ relay.calls # <<>> /\ Len(relay.calls) < 4 =>
              LET last == relay.outcomes[Len(relay.outcomes)]
              IN last.ok \/ ~SaysNotFound(last.error)

\* a request answered after three missing models and a model that replied
C21_Witness ==
    /\ relay.pc = "done"
    /\ Len(relay.calls) = 4
    /\ \A i \in 1 .. 3 : ~relay.outcomes[i].ok
    /\ relay.outcomes[4].ok
    /\ relay.outcomes[4].text # <<>>

\* the class of an error: credential, rate limit, model not found, or any other, the
\* first of these that its message tells
ErrorClass(err) ==
    IF ~err.defined THEN "other"
    ELSE IF "API key" \in err.includes THEN "credential"
    ELSE IF err.includes \cap {"quota", "rate limit"} # {} THEN "rate limit"
    ELSE IF err.includes \cap {"not found", "404"} # {} THEN "model not found"
    ELSE "other"

StatusOfClass(class) ==
    CASE class = "credential" -> 401
      [] class = "rate limit" -> 429
      [] class = "model not found" -> 400
      [] OTHER -> 500

\* the request is answered after a call that failed
FailedUpstream ==
    /\ relay.pc = "done"
    /\ relay.outcomes # <<>>
    /\ ~relay.outcomes[Len(relay.outcomes)].ok

\* C22: a request whose last call failed is answered with the status of the class of
\* that error, 400 when all four models were missing; a request has a response exactly
\* when it is done, and a response once given is not changed
C22_StatusByErrorClass ==
    /\ [](relay.pc # "idle" =>
            /\ (relay.response # None) = (relay.pc = "done")
            /\ FailedUpstream =>
                  relay.response[1].status =
                      StatusOfClass(ErrorClass(relay.outcomes[Len(relay.outcomes)].error))
            /\ (FailedUpstream /\ Len(relay.calls) = 4
                   /\ \A i \in 1 .. 4 :
                          ErrorClass(relay.outcomes[i].error) = "model not found") =>
                  relay.response[1].status = 400)
    /\ [][relay.pc # "idle" /\ relay.response # None => relay' = relay]_vars

\* a request answered 400 after four missing models
C22_Witness ==
    /\ FailedUpstream
    /\ Len(relay.calls) = 4
    /\ \A i \in 1 .. 4 : ErrorClass(relay.outcomes[i].error) = "model not found"
    /\ relay.response[1].status = 400

\* C23 as stated: a request whose last call was answered by the model has the response
\* 200 {message: the reply text, success: true}, whatever the text and whatever
\* happened to the models tried before
C23_ReplyIsAnswered200 ==
    (relay.pc = "done" /\ relay.outcomes # <<>>
        /\ relay.outcomes[Len(relay.outcomes)].ok) =>
            /\ relay.response[1].status = 200
            /\ relay.response[1].body =
                  [message |-> relay.outcomes[Len(relay.outcomes)].text, success |-> TRUE]

---------------------------------------------------------------------------
(* A chat component: Chatbot and ChatPage, whose handlers are the same *)

MaxCalls == 3

\* a Message; request is history: the number of the request the entry was sent with
\* (role "user") or came back for (role "assistant"), 0 for an entry of an earlier visit
Message(role, content, timestamp, request) ==
    [role |-> role, content |-> content, timestamp |-> timestamp, request |-> request]

\* JSON.stringify(messages): a Date becomes its ISO string
StringifyMessages(messages) ==
    ArrayDoc([i \in DOMAIN messages |->
                 [messages[i] EXCEPT !.timestamp = [iso |-> @]]])

\* the load effect: no item leaves the state alone; a text that JSON.parse rejects,
\* or one without a map method, is caught; new Date(msg.timestamp) reads the ISO string
LoadMessages(stored) ==
    IF stored.kind = "array"
    THEN [i \in DOMAIN stored.items |->
             [stored.items[i] EXCEPT !.timestamp = @.iso]]
    ELSE <<>>

\* the save effect, run after every render that changed messages
SaveMessages(messages, stored) ==
    IF Len(messages) > 0 THEN StringifyMessages(messages) ELSE stored

\* handleSendMessage that goes on with a blank input
CanSendBlank(input, loading) == ~loading

\* if (!input.trim() || loading) return;
CanSend(input, loading) == ~(Trim(input) = <<>> \/ loading)

\* data.error || "Failed to get response", then err.message || "An error occurred..."
ErrorMessage(dataError) ==
    LET thrown == IF dataError = "" THEN "Failed to get response" ELSE dataError
    IN IF thrown = "" THEN "An error occurred. Please try again." ELSE thrown

\* the body of the POST to /api/chat
ChatHistory(messages) ==
    [i \in DOMAIN messages |-> [role |-> messages[i].role, content |-> messages[i].content]]

ChatInputs == { <<" ">>, <<"a">>, <<" ", "b">> }
ChatReplies == { <<"o", "k">> }
ChatErrors == { "", "Too many requests. Please wait a moment and try again." }
StoredChat ==
    StringifyMessages(<<Message("user", <<"a">>, Epoch - 1, 0),
                        Message("assistant", <<"o", "k">>, Epoch - 1, 0)>>)
ChatStorages == { NoItem, InvalidDoc, StoredChat }

InitChat ==
    /\ phase = "ready"
    /\ tasks = <<>>
    /\ queued = <<>>
    /\ storage = Stringify(tasks)
    /\ selectedTasks = {}
    /\ deleteConfirmId = NoId
    /\ timers = <<>>
    /\ form = EmptyForm
    /\ editingId = NoId
    /\ showTemplates = FALSE
    /\ templateStorage = NoItem
    /\ relay = RelayIdle
    /\ chat \in {[phase |-> "mounting", messages |-> <<>>, input |-> <<>>,
                  loading |-> FALSE, error |-> None, storage |-> stored,
                  inflight |-> <<>>, requests |-> 0, calls |-> 0, event |-> "none"] :
                    stored \in ChatStorages}
    /\ filter = "All"
    /\ searchQuery = <<>>
    /\ sortBy = "date"
    /\ now = Epoch
    /\ alertMsg = ""
    /\ ops = 0
    /\ lastOp = Op("none", NoId, 0)
    /\ prevTasks = <<>>

chatFrame ==
    <<phase, tasks, queued, storage, selectedTasks, deleteConfirmId, editingId,
      showTemplates, templateStorage, form, timers, filter, searchQuery, sortBy, now,
      alertMsg, ops, lastOp, prevTasks, relay>>

\* the mount: the load effect, the render of what it loaded, the save effect
ChatMount ==
    /\ chat.phase = "mounting"
    /\ LET messages == LoadMessages(chat.storage)
       IN chat' = [chat EXCEPT !.phase = "ready", !.messages = messages,
                               !.storage = SaveMessages(messages, @),
                               !.event = "mount"]
    /\ UNCHANGED chatFrame

\* typing in the textarea, which is disabled while loading
SetInput(value) ==
    /\ chat.phase = "ready"
    /\ ~chat.loading
    /\ chat' = [chat EXCEPT !.input = value, !.event = "input"]
    /\ UNCHANGED chatFrame

\* handleSendMessage up to its await: the four state updates, the fetch, and the save
\* effect of the render that follows
HandleSendMessage ==
    /\ chat.phase = "ready"
    /\ chat.calls < MaxCalls
    /\ IF CanSend(chat.input, chat.loading)
       THEN LET userMessage == Message("user", Trim(chat.input), now, chat.requests + 1)
                messages == Append(chat.messages, userMessage)
                request == [message |-> userMessage.content,
                            chatHistory |-> ChatHistory(messages),
                            request |-> chat.requests + 1]
            IN chat' = [chat EXCEPT !.messages = messages, !.input = <<>>,
                                    !.loading = TRUE, !.error = None,
                                    !.inflight = Append(@, request),
                                    !.requests = @ + 1, !.calls = @ + 1,
                                    !.storage = SaveMessages(messages, @),
                                    !.event = "send"]
       ELSE chat' = [chat EXCEPT !.calls = @ + 1, !.event = "ignored"]
    /\ UNCHANGED chatFrame

\* the fetch resolves with an ok response: the rest of the try block, finally, and the
\* save effect
FetchResolves(text) ==
    /\ chat.phase = "ready"
    /\ chat.inflight # <<>>
    /\ LET assistantMessage == Message("assistant", text, now, Head(chat.inflight).request)
           messages == Append(chat.messages, assistantMessage)
       IN chat' = [chat EXCEPT !.messages = messages, !.loading = FALSE,
                               !.inflight = Tail(@),
                               !.storage = SaveMessages(messages, @),
                               !.event = "resolved"]
    /\ UNCHANGED chatFrame

\* the fetch rejects, or the response is not ok: catch and finally
FetchFails(dataError) ==
    /\ chat.phase = "ready"
    /\ chat.inflight # <<>>
    /\ chat' = [chat EXCEPT !.error = Some(ErrorMessage(dataError)), !.loading = FALSE,
                            !.inflight = Tail(@), !.event = "failed"]
    /\ UNCHANGED chatFrame

\* handleClearChat; the save effect that follows sees no message and writes nothing
HandleClearChat(confirmed) ==
    /\ chat.phase = "ready"
    /\ IF confirmed
       THEN chat' = [chat EXCEPT !.messages = <<>>, !.storage = NoItem,
                                 !.event = "clear"]
       ELSE chat' = [chat EXCEPT !.event = "clear declined"]
    /\ UNCHANGED chatFrame

NextChat ==
    \/ ChatMount
    \/ \E value \in ChatInputs : SetInput(value)
    \/ HandleSendMessage
    \/ \E text \in ChatReplies : FetchResolves(text)
    \/ \E dataError \in ChatErrors : FetchFails(dataError)
    \/ \E confirmed \in BOOLEAN : HandleClearChat(confirmed)
    \/ (chat.phase = "ready" /\ Tick)

SpecChat == InitChat /\ [][NextChat]_vars

\* C24: at most one request is in flight, and loading is true exactly while one is; a
\* call of handleSendMessage while loading, or with an input that trims to empty,
\* changes no message and sends no request; when the request in flight resolves or
\* fails, loading is false again
C24_OneRequestInFlight ==
    /\ [](chat.phase = "ready" =>
            /\ Len(chat.inflight) <= 1
            /\ chat.loading = (chat.inflight # <<>>))
    /\ [][chat.phase = "ready" /\ chat'.calls = chat.calls + 1
            /\ (chat.loading \/ \A i \in DOMAIN chat.input : chat.input[i] \in WhiteSpace) =>
                /\ chat'.messages = chat.messages
                /\ chat'.inflight = chat.inflight
                /\ chat'.requests = chat.requests
                /\ chat'.storage = chat.storage]_vars
    /\ [][chat.phase = "ready" /\ Len(chat'.inflight) < Len(chat.inflight) =>
                ~chat'.loading /\ chat'.inflight = <<>>]_vars

\* handleSendMessage was called while a request was in flight
C24_Witness ==
    /\ chat.phase = "ready"
    /\ chat.event = "ignored"
    /\ chat.loading
    /\ chat.requests = 1

\* the entry of the given role that belongs to request n
EntryOf(role, n, entry) == entry.role = role /\ entry.request = n

\* C25 as stated: a send appends one user entry, which is persisted at once; a
\* successful answer appends one assistant entry right after that user entry and the
\* persisted history then holds both; a failure appends nothing and sets the error
C25_SendAndAnswer ==
    [][chat.phase = "ready" =>
        /\ chat'.event = "send" /\ chat'.requests = chat.requests + 1 =>
              /\ Len(chat'.messages) = Len(chat.messages) + 1
              /\ SubSeq(chat'.messages, 1, Len(chat.messages)) = chat.messages
              /\ EntryOf("user", chat'.requests, chat'.messages[Len(chat'.messages)])
              /\ chat'.storage = StringifyMessages(chat'.messages)
        /\ chat'.event = "resolved" /\ chat'.inflight # chat.inflight =>
              LET n == Head(chat.inflight).request
                  len == Len(chat'.messages)
              IN /\ len = Len(chat.messages) + 1
                 /\ SubSeq(chat'.messages, 1, Len(chat.messages)) = chat.messages
                 /\ len >= 2
                 /\ EntryOf("assistant", n, chat'.messages[len])
                 /\ EntryOf("user", n, chat'.messages[len - 1])
                 /\ chat'.storage = StringifyMessages(chat'.messages)
        /\ chat'.event = "failed" /\ chat'.inflight # chat.inflight =>
              /\ chat'.messages = chat.messages
              /\ chat'.error # None]_vars

\* C28 as stated: every assistant entry of the history stands right after the user
\* entry of the request it answers
C28_AssistantFollowsItsUser ==
    chat.phase = "ready" =>
        \A i \in DOMAIN chat.messages :
            chat.messages[i].role = "assistant" =>
                /\ i > 1
                /\ EntryOf("user", chat.messages[i].request, chat.messages[i - 1])

---------------------------------------------------------------------------
(* Adding *)

\* C13 as stated: of two tasks added one after the other, the one added later stands
\* before the one added earlier in the projection sorted by date, whatever the clock
\* read when they were added
C13_LaterAddedStandsFirst ==
    [][(/\ lastOp.op = "add" /\ Len(tasks) = Len(prevTasks) + 1
        /\ Does("add") /\ Len(tasks') = Len(tasks) + 1
        /\ sortBy' = "date") =>
            \E p, q \in DOMAIN FilteredAndSortedTasks' :
                /\ p < q
                /\ FilteredAndSortedTasks'[p] = tasks'[Len(tasks')]
                /\ FilteredAndSortedTasks'[q] = tasks[Len(tasks)]]_vars

\* s is t without the white space at its ends
IsTrimOf(s, t) ==
    \E i \in 1 .. Len(t) + 1, j \in 0 .. Len(t) :
        /\ s = SubSeq(t, i, j)
        /\ \A k \in 1 .. (i - 1) : t[k] \in WhiteSpace
        /\ \A k \in (j + 1) .. Len(t) : t[k] \in WhiteSpace
        /\ s # <<>> => (s[1] \notin WhiteSpace /\ s[Len(s)] \notin WhiteSpace)

\* C14: handleAddTask leaves the list unchanged when the title of the form trims to
\* empty; otherwise it appends one task with the trimmed title, status Pending, the
\* priority of the form, no subtasks and no completedAt, and leaves the other tasks
\* unchanged; the priority of the form is Medium at first and after every add
C14_AddAppendsOnePendingTask ==
    /\ form.priority = "Medium"
    /\ [][Does("add") =>
            IF IsTrimOf(<<>>, form.title)
            THEN tasks' = tasks
            ELSE /\ Len(tasks') = Len(tasks) + 1
                 /\ \A i \in DOMAIN tasks : tasks'[i] = tasks[i]
                 /\ LET added == tasks'[Len(tasks')]
                    IN /\ IsTrimOf(added.title, form.title)
                       /\ added.status = "Pending"
                       /\ added.priority = form.priority
                       /\ added.subtasks = <<>>
                       /\ added.completedAt = None
                 /\ form'.priority = "Medium"]_vars

\* a task was added from a title with white space at both ends and a picked priority,
\* after an add with a blank title and an add with the default priority
C14_Witness ==
    /\ lastOp.op = "add"
    /\ Len(tasks) = 2
    /\ ops = 3
    /\ tasks[1].priority = "Medium"
    /\ tasks[2].priority = "Urgent"
    /\ tasks[2].title = <<"a">>

---------------------------------------------------------------------------
(* Sorting *)

\* the place of a priority in the order Urgent, High, Medium, Low
PriorityRank(p) ==
    CHOOSE i \in 1 .. 4 : <<"Urgent", "High", "Medium", "Low">>[i] = p

\* the position in the task list of a task of the projection
PositionInList(task) == CHOOSE i \in DOMAIN tasks : tasks[i] = task

\* C11: sorted by priority, the projection has every Urgent task before every High
\* task, every High before every Medium and every Medium before every Low, and tasks
\* of equal priority in their list order
C11_PrioritySortIsStableDescending ==
    sortBy = "priority" =>
        \A i, j \in DOMAIN FilteredAndSortedTasks :
            i < j =>
                LET a == FilteredAndSortedTasks[i]
                    b == FilteredAndSortedTasks[j]
                IN /\ PriorityRank(a.priority) <= PriorityRank(b.priority)
                   /\ a.priority = b.priority => PositionInList(a) < PositionInList(b)

\* a list that is not in priority order and has two tasks of equal priority, shown
\* sorted by priority
C11_Witness ==
    /\ sortBy = "priority"
    /\ filter = "All"
    /\ searchQuery = <<>>
    /\ Len(tasks) = 3
    /\ PriorityRank(tasks[1].priority) > PriorityRank(tasks[2].priority)
    /\ tasks[1].priority = tasks[3].priority

\* s is an earlier date than t: date strings compare as their characters do
RECURSIVE EarlierDate(_, _)
EarlierDate(s, t) ==
    /\ s # <<>>
    /\ t # <<>>
    /\ \/ s[1] # "-" /\ t[1] # "-" /\ DigitValue(s[1]) < DigitValue(t[1])
       \/ s[1] = t[1] /\ EarlierDate(Tail(s), Tail(t))

---------------------------------------------------------------------------
(* Bulk operations *)

\* the tasks of ts whose id is not in sel, in their order
Unselected(ts, sel) == SelectSeq(ts, LAMBDA task : task.id \notin sel)

\* C18: bulkComplete, bulkDelete and bulkUpdatePriority(p) each leave the selection
\* empty and the tasks that are not selected unchanged and in their order; bulkDelete
\* leaves no selected task in the list, and bulkUpdatePriority leaves as many tasks as
\* before, every selected one with priority p, Completed or not
C18_BulkFrame ==
    [][(Does("bulkDelete") \/ Does("bulkComplete") \/ Does("bulkPriority")) =>
        /\ selectedTasks' = {}
        /\ Unselected(tasks', selectedTasks) = Unselected(tasks, selectedTasks)
        /\ Does("bulkDelete") => tasks' = Unselected(tasks, selectedTasks)
        /\ Does("bulkPriority") =>
              /\ Len(tasks') = Len(tasks)
              /\ \A i \in DOMAIN tasks :
                    tasks[i].id \in selectedTasks =>
                        /\ PriorityRank(tasks'[i].priority) = 5 - lastOp'.arg
                        /\ tasks'[i].status = tasks[i].status]_vars

\* a bulkUpdatePriority has changed the priority of a Completed task and left a task
\* outside the selection as it was
C18_Witness ==
    /\ phase = "ready"
    /\ lastOp.op = "bulkPriority"
    /\ selectedTasks = {}
    /\ Len(tasks) = Len(prevTasks)
    /\ \E i \in DOMAIN tasks :
          /\ tasks[i].status = "Completed"
          /\ tasks[i].priority = "Urgent"
          /\ prevTasks[i].priority # "Urgent"
    /\ \E i \in DOMAIN tasks : tasks[i] = prevTasks[i] /\ tasks[i].priority # "Urgent"


---------------------------------------------------------------------------
(* Selection, mount, delete confirmation and drag and drop *)

\* C26 as stated: every selected id is the id of a task of the list
C26_SelectionWithinList ==
    selectedTasks \subseteq {tasks[i].id : i \in {j \in DOMAIN tasks : "id" \in DOMAIN tasks[j]}}

\* C27 as stated: as long as the user has performed no operation, no step changes a
\* stored list that is not empty
C27_MountKeepsStoredList ==
    [][(ops' = 0 /\ storage.kind = "array" /\ Len(storage.items) > 0) =>
            storage' = storage]_vars

\* C29 as stated: a single delete removes the task whose confirmation was armed, and
\* a timeout that disarms the confirmation of a task was started by the click that
\* armed that task
C29_TwoStepDelete ==
    [][/\ (ops' = ops + 1 /\ lastOp'.op = "delete") => deleteConfirmId = lastOp'.id
       /\ (timers # <<>> /\ timers' = Tail(timers)
             /\ deleteConfirmId # 0 /\ deleteConfirmId' = 0) =>
                Head(timers) = deleteConfirmId]_vars

\* C30 as stated: a drop whose dragged id is the id of no task of the list leaves the
\* list as it was
C30_UnknownDragChangesNothing ==
    [][(ops' = ops + 1 /\ lastOp'.op = "drop"
          /\ \A i \in DOMAIN tasks : tasks[i].id # lastOp'.id) =>
            tasks' = tasks]_vars

====
